---------------------------- MODULE Spec2Model ----------------------------
(***************************************************************************)
(* Ledger consistency engine of prototype1-abc (crate `blockchain`):       *)
(* Block hashing, Transaction::execute, Blockchain::append_block with      *)
(* snapshot/rollback, and Blockchain::check_validity.                      *)
(*                                                                         *)
(* Conventions.  Option<T> is a sequence of length 0 (None) or 1 (Some).   *)
(* A Blake2b digest is represented by the sequence of inputs fed to the    *)
(* hasher, i.e. the hash is collision free by construction.  Balances are  *)
(* unsigned integers of TokenBits bits (u128 in the source).               *)
(***************************************************************************)
EXTENDS Integers, Sequences, FiniteSets, TLC

VARIABLES
    blocks,       \* Blockchain.blocks: the committed blocks
    accounts,     \* Blockchain.accounts: account id -> Account
    res,          \* Option: what the last append_block call returned
    bc_attack,    \* Option: blocks of a clone of the chain that is mutated in place
    tampered,     \* Option: [k, j] the block / transaction of bc_attack altered in place
    rehashed,     \* whether update_hash() was called on the altered block afterwards
    audit,        \* Option: what the last check_validity call returned
    block         \* Option: a Block a caller is building, not yet submitted

vars == <<blocks, accounts, res, bc_attack, tampered, rehashed, audit, block>>

-----------------------------------------------------------------------------
(* Bounds of the model *)

\* width of Account.tokens in bits (u128 in the source, scaled down)
TokenBits == 2
\* most transactions added to one block
MaxTxs == 3
\* most blocks committed to the chain
MaxBlocks == 2
\* largest nonce given to set_nonce
MaxNonce == 1
\* most stored hashes, prev_hashes and transactions of a clone an attacker alters
MaxAltered == 2

TokenMax == 2^TokenBits - 1

None == << >>
Some(x) == << x >>
IsSome(o) == Len(o) = 1
Unwrap(o) == o[1]

Ids == {"alice", "bob"}

-----------------------------------------------------------------------------
(* Transaction *)

CreateUserAccount(id) == [type |-> "CreateUserAccount", id |-> id]
ChangeStoreValue(key, value) == [type |-> "ChangeStoreValue", key |-> key, value |-> value]
TransferTokens(to, amount) == [type |-> "TransferTokens", to |-> to, amount |-> amount]
CreateTokens(receiver, amount) == [type |-> "CreateTokens", receiver |-> receiver, amount |-> amount]

\* Transaction::new; created_at is the clock reading, here always instant 0
Transaction_new(from, transaction_data, nonce) ==
    [from |-> from, nonce |-> nonce, record |-> transaction_data,
     created_at |-> 0, signature |-> None]

\* the record left out of the hashed tuple
Transaction_calculate_hash_without_record(t) == <<t.created_at, t.from, t.nonce>>

\* Transaction::calculate_hash: digest of (created_at, record, from, nonce);
\* the signature is not part of it
Transaction_calculate_hash(t) == <<t.created_at, t.record, t.from, t.nonce>>

is_signed(t) == IsSome(t.signature)

\* a verification that accepts every signed transaction
check_signature_accepting(t) == is_signed(t)

\* Transaction::check_signature: a stub
check_signature(t) == IF ~is_signed(t) THEN FALSE ELSE FALSE

-----------------------------------------------------------------------------
(* Account store (WorldState for Blockchain) *)

Account_new(account_type) == [acc_type |-> account_type, tokens |-> 0]

EmptyStore == [id \in {} |-> Account_new("User")]

get_user_ids(store) == DOMAIN store

get_account_by_id(store, id) == IF id \in DOMAIN store THEN Some(store[id]) ELSE None

set_tokens(store, id, n) == [store EXCEPT ![id].tokens = n]

Ok(store) == [ok |-> TRUE, err |-> "", panic |-> FALSE, store |-> store]
Err(code, store) == [ok |-> FALSE, err |-> code, panic |-> FALSE, store |-> store]
Panic(store) == [ok |-> FALSE, err |-> "panic", panic |-> TRUE, store |-> store]

\* the existence test left out: the insert replaces the account
create_account_overwriting(store, id, account_type) ==
    Ok([x \in DOMAIN store \cup {id} |->
           IF x = id THEN Account_new(account_type) ELSE store[x]])

create_account(store, id, account_type) ==
    IF id \notin get_user_ids(store)
    THEN Ok([x \in DOMAIN store \cup {id} |->
                IF x = id THEN Account_new(account_type) ELSE store[x]])
    ELSE Err("User already exists! (Code: 934823094)", store)

checked_add(a, b) == IF a + b > TokenMax THEN None ELSE Some(a + b)
checked_sub(a, b) == IF a - b < 0 THEN None ELSE Some(a - b)

\* `account.tokens += amount` on u128: with overflow checks compiled in (debug
\* profile) an overflow panics, without them (release profile) it wraps
add_assign(store, id, amount, overflow_checks) ==
    LET sum == store[id].tokens + amount IN
    IF sum > TokenMax
    THEN IF overflow_checks THEN Panic(store)
         ELSE Ok(set_tokens(store, id, sum % (TokenMax + 1)))
    ELSE Ok(set_tokens(store, id, sum))

\* minting allowed in every block
execute_create_tokens_anywhere(tx, store, is_initial, overflow_checks) ==
    IF IsSome(get_account_by_id(store, tx.record.receiver))
    THEN add_assign(store, tx.record.receiver, tx.record.amount, overflow_checks)
    ELSE Err("Receiver Account does not exist (Code: 23482309)", store)

execute_create_tokens(tx, store, is_initial, overflow_checks) ==
    IF ~is_initial
    THEN Err("Token creation is only available on initial creation (Code: 2394233)", store)
    ELSE IF IsSome(get_account_by_id(store, tx.record.receiver))
         THEN add_assign(store, tx.record.receiver, tx.record.amount, overflow_checks)
         ELSE Err("Receiver Account does not exist (Code: 23482309)", store)

\* only the receiver's new balance is tested; the debit wraps
execute_transfer_tokens_unchecked_debit(tx, store) ==
    LET to == tx.record.to
        amount == tx.record.amount
    IN  IF ~IsSome(get_account_by_id(store, to))
        THEN Err("Receiver Account does not exist! (Code: 3242342380)", store)
        ELSE IF ~IsSome(get_account_by_id(store, tx.from))
        THEN Err("That account does not exist! (Code: 23423923)", store)
        ELSE LET balance_recv_new == checked_add(store[to].tokens, amount)
                 balance_sender_new == (store[tx.from].tokens - amount) % (TokenMax + 1)
             IN  IF IsSome(balance_recv_new)
                 THEN Ok(set_tokens(set_tokens(store, tx.from, balance_sender_new),
                                    to, Unwrap(balance_recv_new)))
                 ELSE Err("Overspent or Arithmetic error (Code: 48239084203)", store)

\* the two new balances written to the wrong accounts
execute_transfer_tokens_swapped(tx, store) ==
    LET to == tx.record.to
        amount == tx.record.amount
    IN  IF ~IsSome(get_account_by_id(store, to))
        THEN Err("Receiver Account does not exist! (Code: 3242342380)", store)
        ELSE IF ~IsSome(get_account_by_id(store, tx.from))
        THEN Err("That account does not exist! (Code: 23423923)", store)
        ELSE LET balance_recv_new == checked_add(store[to].tokens, amount)
                 balance_sender_new == checked_sub(store[tx.from].tokens, amount)
             IN  IF IsSome(balance_recv_new) /\ IsSome(balance_sender_new)
                 THEN Ok(set_tokens(set_tokens(store, tx.from, Unwrap(balance_recv_new)),
                                    to, Unwrap(balance_sender_new)))
                 ELSE Err("Overspent or Arithmetic error (Code: 48239084203)", store)

execute_transfer_tokens(tx, store) ==
    LET to == tx.record.to
        amount == tx.record.amount
    IN  IF ~IsSome(get_account_by_id(store, to))
        THEN Err("Receiver Account does not exist! (Code: 3242342380)", store)
        ELSE IF ~IsSome(get_account_by_id(store, tx.from))
        THEN Err("That account does not exist! (Code: 23423923)", store)
        ELSE LET balance_recv_new == checked_add(store[to].tokens, amount)
                 balance_sender_new == checked_sub(store[tx.from].tokens, amount)
             IN  IF IsSome(balance_recv_new) /\ IsSome(balance_sender_new)
                 THEN \* the sender is written first, the receiver second
                      Ok(set_tokens(set_tokens(store, tx.from, Unwrap(balance_sender_new)),
                                    to, Unwrap(balance_recv_new)))
                 ELSE Err("Overspent or Arithmetic error (Code: 48239084203)", store)

\* the sender never looked up
execute_sender_unchecked(tx, store, is_initial, overflow_checks) ==
    CASE tx.record.type = "CreateUserAccount" ->
           create_account(store, tx.record.id, "User")
      [] tx.record.type = "CreateTokens" ->
           execute_create_tokens(tx, store, is_initial, overflow_checks)
      [] tx.record.type = "TransferTokens" ->
           execute_transfer_tokens(tx, store)
      [] OTHER ->
           Err("Unknown Transaction type (not implemented) (Code: 487289724389)", store)

\* the variants without an arm of their own taken as nothing to do
execute_unknown_ignored(tx, store, is_initial, overflow_checks) ==
    IF ~IsSome(get_account_by_id(store, tx.from)) /\ ~is_initial
    THEN Err("Account does not exist (Code: 93482390)", store)
    ELSE CASE tx.record.type = "CreateUserAccount" ->
                create_account(store, tx.record.id, "User")
           [] tx.record.type = "CreateTokens" ->
                execute_create_tokens(tx, store, is_initial, overflow_checks)
           [] tx.record.type = "TransferTokens" ->
                execute_transfer_tokens(tx, store)
           [] OTHER ->
                Ok(store)

\* Transaction::execute
execute(tx, store, is_initial, overflow_checks) ==
    IF ~IsSome(get_account_by_id(store, tx.from)) /\ ~is_initial
    THEN Err("Account does not exist (Code: 93482390)", store)
    ELSE CASE tx.record.type = "CreateUserAccount" ->
                create_account(store, tx.record.id, "User")
           [] tx.record.type = "CreateTokens" ->
                execute_create_tokens(tx, store, is_initial, overflow_checks)
           [] tx.record.type = "TransferTokens" ->
                execute_transfer_tokens(tx, store)
           [] OTHER ->
                Err("Unknown Transaction type (not implemented) (Code: 487289724389)", store)

-----------------------------------------------------------------------------
(* Block *)

Block_new(prev_hash) ==
    [nonce |-> 0, hash |-> None, prev_hash |-> prev_hash, transactions |-> << >>]

\* the transaction hashes not fed to the hasher
Block_calculate_hash_without_transactions(b) == <<<< >>, b.prev_hash, b.nonce>>

\* the (prev_hash, nonce) string not fed to the hasher
Block_calculate_hash_without_prev_hash(b) ==
    <<[i \in 1..Len(b.transactions) |-> Transaction_calculate_hash(b.transactions[i])]>>

\* Block::calculate_hash: the transaction hashes in order, then (prev_hash, nonce)
Block_calculate_hash(b) ==
    <<[i \in 1..Len(b.transactions) |-> Transaction_calculate_hash(b.transactions[i])],
      b.prev_hash, b.nonce>>

\* one char per byte: injective
byte_vector_to_string(arr) == [chars |-> arr]

update_hash(b) == [b EXCEPT !.hash = Some(byte_vector_to_string(Block_calculate_hash(b)))]

set_nonce(b, nonce) == update_hash([b EXCEPT !.nonce = nonce])

add_transaction(b, transaction) ==
    update_hash([b EXCEPT !.transactions = Append(@, transaction)])

get_transaction_count(b) == Len(b.transactions)

\* only the presence of the stored hash tested
verify_own_hash_set_only(b) == IsSome(b.hash)

\* a block without a stored hash taken as having nothing to verify
verify_own_hash_unset_passes(b) ==
    IF IsSome(b.hash)
    THEN Unwrap(b.hash) = byte_vector_to_string(Block_calculate_hash(b))
    ELSE TRUE

verify_own_hash(b) ==
    IF IsSome(b.hash) /\ Unwrap(b.hash) = byte_vector_to_string(Block_calculate_hash(b))
    THEN TRUE
    ELSE FALSE

-----------------------------------------------------------------------------
(* Blockchain *)

len(bks) == Len(bks)

\* the emptiness test off by one
get_last_block_hash_off_by_one(bks) == IF Len(bks) <= 1 THEN None ELSE bks[Len(bks)].hash

get_last_block_hash(bks) == IF len(bks) = 0 THEN None ELSE bks[len(bks)].hash

\* the loop not left at the first error: every transaction is run and the last
\* one that failed is reported
RECURSIVE execute_each_to_the_end(_, _, _, _, _)
execute_each_to_the_end(txs, i, store, is_genesis, overflow_checks) ==
    IF i > Len(txs)
    THEN [kind |-> "Ok", index |-> 0, cause |-> "", executed |-> Len(txs), store |-> store]
    ELSE LET r == execute(txs[i], store, is_genesis, overflow_checks)
             rest == execute_each_to_the_end(txs, i + 1, r.store, is_genesis, overflow_checks)
         IN  IF r.panic
             THEN [kind |-> "Panic", index |-> i, cause |-> r.err, executed |-> i, store |-> r.store]
             ELSE IF ~r.ok /\ rest.kind = "Ok"
             THEN [kind |-> "ErrExecute", index |-> i, cause |-> r.err,
                   executed |-> Len(txs), store |-> rest.store]
             ELSE rest

\* the loop of append_block over block.transactions, from the i-th on:
\* stops at the first transaction whose execute returns Err (or panics)
RECURSIVE execute_each(_, _, _, _, _)
execute_each(txs, i, store, is_genesis, overflow_checks) ==
    IF i > Len(txs)
    THEN [kind |-> "Ok", index |-> 0, cause |-> "", executed |-> Len(txs), store |-> store]
    ELSE LET r == execute(txs[i], store, is_genesis, overflow_checks) IN
         IF r.panic
         THEN [kind |-> "Panic", index |-> i, cause |-> r.err, executed |-> i, store |-> r.store]
         ELSE IF ~r.ok
         THEN [kind |-> "ErrExecute", index |-> i, cause |-> r.err, executed |-> i, store |-> r.store]
         ELSE execute_each(txs, i + 1, r.store, is_genesis, overflow_checks)

Result(kind, index, cause, executed) ==
    [kind |-> kind, index |-> index, cause |-> cause, executed |-> executed]

\* the rollback forgotten: the store stays as the loop left it
recover_state_forgotten(old_state, live) == live

\* `self.accounts = old_state;`: what the store is after a failed transaction,
\* given the snapshot and the store as the loop left it
recover_state(old_state, live) == old_state

\* the transactions run before the structural checks, which then reject the
\* block without restoring the store
append_block_checks_last(bks, accs, b, overflow_checks) ==
    LET is_genesis == len(bks) = 0
        run == execute_each(b.transactions, 1, accs, is_genesis, overflow_checks)
    IN  IF run.kind = "Panic"
        THEN [blocks |-> bks, accounts |-> run.store,
              res |-> Result("Panic", run.index, run.cause, run.executed)]
        ELSE IF ~verify_own_hash(b)
        THEN [blocks |-> bks, accounts |-> run.store, res |-> Result("ErrHash", 0, "", 0)]
        ELSE IF ~(b.prev_hash = get_last_block_hash(bks))
        THEN [blocks |-> bks, accounts |-> run.store, res |-> Result("ErrLinkage", 0, "", 0)]
        ELSE IF get_transaction_count(b) = 0
        THEN [blocks |-> bks, accounts |-> run.store, res |-> Result("ErrEmpty", 0, "", 0)]
        ELSE IF run.kind = "ErrExecute"
        THEN [blocks |-> bks, accounts |-> accs,
              res |-> Result("ErrExecute", run.index, run.cause, run.executed)]
        ELSE [blocks |-> Append(bks, b), accounts |-> run.store,
              res |-> Result("Ok", 0, "", run.executed)]

\* the linkage tested before the block's own hash
append_block_linkage_first(bks, accs, b, overflow_checks) ==
    LET is_genesis == len(bks) = 0 IN
    IF ~(b.prev_hash = get_last_block_hash(bks))
    THEN [blocks |-> bks, accounts |-> accs, res |-> Result("ErrLinkage", 0, "", 0)]
    ELSE IF ~verify_own_hash(b)
    THEN [blocks |-> bks, accounts |-> accs, res |-> Result("ErrHash", 0, "", 0)]
    ELSE IF get_transaction_count(b) = 0
    THEN [blocks |-> bks, accounts |-> accs, res |-> Result("ErrEmpty", 0, "", 0)]
    ELSE LET old_state == accs
             run == execute_each(b.transactions, 1, accs, is_genesis, overflow_checks)
         IN  CASE run.kind = "ErrExecute" ->
                    [blocks |-> bks, accounts |-> recover_state(old_state, run.store),
                     res |-> Result("ErrExecute", run.index, run.cause, run.executed)]
               [] run.kind = "Panic" ->
                    [blocks |-> bks, accounts |-> run.store,
                     res |-> Result("Panic", run.index, run.cause, run.executed)]
               [] OTHER ->
                    [blocks |-> Append(bks, b), accounts |-> run.store,
                     res |-> Result("Ok", 0, "", run.executed)]

\* the accepted block put in front of the chain
append_block_at_the_front(bks, accs, b, overflow_checks) ==
    LET is_genesis == len(bks) = 0 IN
    IF ~verify_own_hash(b)
    THEN [blocks |-> bks, accounts |-> accs, res |-> Result("ErrHash", 0, "", 0)]
    ELSE IF ~(b.prev_hash = get_last_block_hash(bks))
    THEN [blocks |-> bks, accounts |-> accs, res |-> Result("ErrLinkage", 0, "", 0)]
    ELSE IF get_transaction_count(b) = 0
    THEN [blocks |-> bks, accounts |-> accs, res |-> Result("ErrEmpty", 0, "", 0)]
    ELSE LET old_state == accs
             run == execute_each(b.transactions, 1, accs, is_genesis, overflow_checks)
         IN  CASE run.kind = "ErrExecute" ->
                    [blocks |-> bks, accounts |-> recover_state(old_state, run.store),
                     res |-> Result("ErrExecute", run.index, run.cause, run.executed)]
               [] run.kind = "Panic" ->
                    [blocks |-> bks, accounts |-> run.store,
                     res |-> Result("Panic", run.index, run.cause, run.executed)]
               [] OTHER ->
                    [blocks |-> <<b>> \o bks, accounts |-> run.store,
                     res |-> Result("Ok", 0, "", run.executed)]

\* the block's transaction count not looked at
append_block_accepting_empty(bks, accs, b, overflow_checks) ==
    LET is_genesis == len(bks) = 0 IN
    IF ~verify_own_hash(b)
    THEN [blocks |-> bks, accounts |-> accs, res |-> Result("ErrHash", 0, "", 0)]
    ELSE IF ~(b.prev_hash = get_last_block_hash(bks))
    THEN [blocks |-> bks, accounts |-> accs, res |-> Result("ErrLinkage", 0, "", 0)]
    ELSE LET old_state == accs
             run == execute_each(b.transactions, 1, accs, is_genesis, overflow_checks)
         IN  CASE run.kind = "ErrExecute" ->
                    [blocks |-> bks, accounts |-> recover_state(old_state, run.store),
                     res |-> Result("ErrExecute", run.index, run.cause, run.executed)]
               [] run.kind = "Panic" ->
                    [blocks |-> bks, accounts |-> run.store,
                     res |-> Result("Panic", run.index, run.cause, run.executed)]
               [] OTHER ->
                    [blocks |-> Append(bks, b), accounts |-> run.store,
                     res |-> Result("Ok", 0, "", run.executed)]

\* Blockchain::append_block on the ledger (bks, accs); yields the ledger after the
\* call and the returned value
append_block(bks, accs, b, overflow_checks) ==
    LET is_genesis == len(bks) = 0 IN
    IF ~verify_own_hash(b)
    THEN [blocks |-> bks, accounts |-> accs, res |-> Result("ErrHash", 0, "", 0)]
    ELSE IF ~(b.prev_hash = get_last_block_hash(bks))
    THEN [blocks |-> bks, accounts |-> accs, res |-> Result("ErrLinkage", 0, "", 0)]
    ELSE IF get_transaction_count(b) = 0
    THEN [blocks |-> bks, accounts |-> accs, res |-> Result("ErrEmpty", 0, "", 0)]
    ELSE LET old_state == accs
             run == execute_each(b.transactions, 1, accs, is_genesis, overflow_checks)
         IN  CASE run.kind = "ErrExecute" ->
                    [blocks |-> bks, accounts |-> recover_state(old_state, run.store),
                     res |-> Result("ErrExecute", run.index, run.cause, run.executed)]
               [] run.kind = "Panic" ->
                    \* unwinding leaves the store as the loop had it
                    [blocks |-> bks, accounts |-> run.store,
                     res |-> Result("Panic", run.index, run.cause, run.executed)]
               [] OTHER ->
                    [blocks |-> Append(bks, b), accounts |-> run.store,
                     res |-> Result("Ok", 0, "", run.executed)]

\* Blockchain::check_validity from the block_num-th block on (1-based here);
\* an error carries the block number as the message prints it
RECURSIVE first_bad_signature(_, _)
first_bad_signature(txs, j) ==
    IF j > Len(txs) THEN 0
    ELSE IF is_signed(txs[j]) /\ ~check_signature(txs[j]) THEN j
    ELSE first_bad_signature(txs, j + 1)

Verdict(kind, at, reported, tx) ==
    [kind |-> kind, at |-> at, reported |-> reported, tx |-> tx]

RECURSIVE check_validity_from(_, _)
check_validity_from(bks, n) ==
    IF n > Len(bks) THEN Verdict("Ok", 0, 0, 0)
    ELSE LET b == bks[n]
             block_num == n - 1
             bad_tx == first_bad_signature(b.transactions, 1)
         IN  IF ~verify_own_hash(b)
             THEN Verdict("ErrStoredHash", n, block_num + 1, 0)
             ELSE IF block_num = 0 /\ IsSome(b.prev_hash)
             THEN Verdict("ErrGenesisPrevHash", n, 0, 0)
             ELSE IF block_num # 0 /\ ~IsSome(b.prev_hash)
             THEN Verdict("ErrNoPrevHash", n, block_num + 1, 0)
             ELSE IF block_num # 0 /\ ~IsSome(bks[n - 1].hash)
             THEN Verdict("Panic", n, 0, 0)       \* unwrap() of an absent hash
             ELSE IF block_num # 0 /\ ~(b.prev_hash = bks[n - 1].hash)
             THEN Verdict("ErrNotConnected", n, block_num, 0)
             ELSE IF bad_tx # 0
             THEN Verdict("ErrSignature", n, block_num + 1, bad_tx)
             ELSE check_validity_from(bks, n + 1)

\* the scan started at the second block
check_validity_skipping_genesis(bks) ==
    IF Len(bks) = 0 THEN Verdict("Ok", 0, 0, 0) ELSE check_validity_from(bks, 2)

check_validity(bks) == check_validity_from(bks, 1)

-----------------------------------------------------------------------------
(* The callers: what is submitted to the ledger *)

\* the transactions callers build with Transaction::new
Txs ==
    { Transaction_new("alice", CreateUserAccount("alice"), 0),
      Transaction_new("alice", CreateUserAccount("bob"), 0),
      Transaction_new("alice", CreateTokens("alice", TokenMax), 0),
      Transaction_new("bob", CreateTokens("alice", 1), 0),
      Transaction_new("alice", TransferTokens("bob", 1), 0),
      Transaction_new("alice", TransferTokens("alice", 1), 0),
      Transaction_new("alice", ChangeStoreValue("k", "v"), 0) }

TxSeqs == UNION { [1..n -> Txs] : n \in 0..MaxTxs }

\* the blocks tried on a prev_hash other than the head hold at most one transaction
ShortSeqs == {<< >>} \cup { <<t>> : t \in Txs }

RECURSIVE add_all(_, _, _)
add_all(b, txs, i) ==
    IF i > Len(txs) THEN b ELSE add_all(add_transaction(b, txs[i]), txs, i + 1)

\* Block::new followed by one add_transaction per element of txs
Built(prev_hash, txs) == add_all(Block_new(prev_hash), txs, 1)

\* a hash that is the hash of no committed block
OrphanHash == set_nonce(Block_new(None), 0).hash

\* the prev_hash values a caller passes to Block::new
PrevChoices(bks) == {None, OrphanHash} \cup { bks[i].hash : i \in 1..Len(bks) }

\* a block with a transaction pushed into the field, inside the crate, without
\* update_hash(): its stored hash is stale
Stale(prev_hash, t, u) == [Built(prev_hash, <<t>>) EXCEPT !.transactions = Append(@, u)]

\* the amount minted to each initial user (100_000_000 of the u128 range),
\* scaled to the width of the model: half of the range
Minted == 2^(TokenBits - 1)

\* the lists of initial users a genesis block is built for: the two of the
\* program, and the two with a third
InitialUsers == { <<"alice", "bob">>, <<"alice", "bob", "carol">> }

\* the loop over initial_users: for each, a CreateUserAccount and a CreateTokens
\* sent by the user, added in this order
RECURSIVE initial_transactions(_, _)
initial_transactions(initial_users, i) ==
    IF i > Len(initial_users) THEN << >>
    ELSE << Transaction_new(initial_users[i], CreateUserAccount(initial_users[i]), 0),
            Transaction_new(initial_users[i], CreateTokens(initial_users[i], Minted), 0) >>
         \o initial_transactions(initial_users, i + 1)

scenario_genesis(initial_users) == Built(None, initial_transactions(initial_users, 1))

\* block2: one token from alice to bob, on top of prev_hash
scenario_block2(prev_hash) ==
    Built(prev_hash, << Transaction_new("alice", TransferTokens("bob", 1), 0) >>)

-----------------------------------------------------------------------------
(* The state machine *)

\* Blockchain::new(): empty chain, empty store
Init ==
    /\ blocks = << >>
    /\ accounts = EmptyStore
    /\ res = None
    /\ bc_attack = None
    /\ tampered = None
    /\ rehashed = FALSE
    /\ audit = None
    /\ block = None

Idle == res = None /\ audit = None /\ bc_attack = None

\* bc.append_block(b)
Submit(b) ==
    \* the build profile decides an overflow only: the two profiles agree on
    \* every call that does not panic under overflow checks
    LET checked == append_block(blocks, accounts, b, TRUE) IN
    \E r \in IF checked.res.kind = "Panic"
             THEN {checked, append_block(blocks, accounts, b, FALSE)}
             ELSE {checked} :
        /\ blocks' = r.blocks
        /\ accounts' = r.accounts
        /\ res' = Some(r.res)

\* a caller hands a block to bc.append_block: one built through the public API
\* on the head of the chain; one built on any other prev_hash; one with only a
\* nonce set; or one with a stale hash
AppendBlock ==
    /\ Idle
    /\ len(blocks) < MaxBlocks
    /\ \/ \E txs \in TxSeqs : Submit(Built(get_last_block_hash(blocks), txs))
       \/ \E p \in PrevChoices(blocks), txs \in ShortSeqs : Submit(Built(p, txs))
       \/ \E p \in PrevChoices(blocks) : Submit(set_nonce(Block_new(p), 0))
       \/ \E p \in PrevChoices(blocks), t \in Txs, u \in Txs : Submit(Stale(p, t, u))
    /\ UNCHANGED <<bc_attack, tampered, rehashed, audit, block>>

\* bc.append_block(genesis) with the genesis block of the program
AppendGenesis ==
    /\ Idle
    /\ len(blocks) = 0
    /\ \E initial_users \in InitialUsers : Submit(scenario_genesis(initial_users))
    /\ UNCHANGED <<bc_attack, tampered, rehashed, audit, block>>

\* the caller is done with the returned values; a panic ends the program
Aborted == (IsSome(res) /\ Unwrap(res).kind = "Panic")
              \/ (IsSome(audit) /\ Unwrap(audit).kind = "Panic")

DropResult ==
    /\ ~Aborted
    /\ IsSome(res) \/ IsSome(audit) \/ IsSome(bc_attack)
    /\ res' = None
    /\ audit' = None
    /\ bc_attack' = None
    /\ tampered' = None
    /\ rehashed' = FALSE
    /\ UNCHANGED <<blocks, accounts, block>>

\* bc.check_validity()
CheckValidity ==
    /\ Idle
    /\ audit' = Some(check_validity(blocks))
    /\ UNCHANGED <<blocks, accounts, res, bc_attack, tampered, rehashed, block>>

\* let mut bc_attack = bc.clone()
CloneChain ==
    /\ Idle
    /\ len(blocks) > 0
    /\ bc_attack' = Some(blocks)
    /\ UNCHANGED <<blocks, accounts, res, tampered, rehashed, audit, block>>

HasAmount(t) == t.record.type \in {"TransferTokens", "CreateTokens"}

\* the amounts an attacker writes: nothing, the least, the most
TamperAmounts == {0, 1, TokenMax}

\* *amount = a, in place, on transaction j of block k of the clone
alter_amount(bks, k, j, a) == [bks EXCEPT ![k].transactions[j].record.amount = a]

TamperAmount ==
    /\ IsSome(bc_attack) /\ tampered = None /\ audit = None
    /\ \E k \in 1..Len(Unwrap(bc_attack)) :
       \E j \in 1..Len(Unwrap(bc_attack)[k].transactions) :
       \E a \in TamperAmounts :
          /\ HasAmount(Unwrap(bc_attack)[k].transactions[j])
          /\ a # Unwrap(bc_attack)[k].transactions[j].record.amount
          /\ bc_attack' = Some(alter_amount(Unwrap(bc_attack), k, j, a))
          /\ tampered' = Some([k |-> k, j |-> j])
    /\ UNCHANGED <<blocks, accounts, res, rehashed, audit, block>>

\* bc_attack.blocks[k].update_hash() on the altered block
UpdateHash ==
    /\ IsSome(bc_attack) /\ IsSome(tampered) /\ ~rehashed /\ audit = None
    /\ bc_attack' = Some([Unwrap(bc_attack) EXCEPT ![Unwrap(tampered).k] = update_hash(@)])
    /\ rehashed' = TRUE
    /\ UNCHANGED <<blocks, accounts, res, tampered, audit, block>>

\* bc_attack.check_validity()
CheckAttack ==
    /\ IsSome(bc_attack) /\ IsSome(tampered) /\ audit = None
    /\ audit' = Some(check_validity(Unwrap(bc_attack)))
    /\ UNCHANGED <<blocks, accounts, res, bc_attack, tampered, rehashed, block>>

Next ==
    \/ AppendBlock
    \/ DropResult
    \/ CheckValidity
    \/ CloneChain
    \/ TamperAmount
    \/ UpdateHash
    \/ CheckAttack

Spec == Init /\ [][Next]_vars

-----------------------------------------------------------------------------
(* A caller building one block, and writes to its fields inside the crate *)

\* the ledgers a block is built for: the empty one, and the one that holds the
\* genesis block of the program
Ledgers ==
    { [blocks |-> << >>, accounts |-> EmptyStore],
      LET r == append_block(<< >>, EmptyStore, scenario_genesis(<<"alice", "bob">>), TRUE)
      IN  [blocks |-> r.blocks, accounts |-> r.accounts] }

\* let mut b = Block::new(prev_hash)
InitBlock ==
    /\ \E ledger \in Ledgers : blocks = ledger.blocks /\ accounts = ledger.accounts
    /\ res = None
    /\ bc_attack = None
    /\ tampered = None
    /\ rehashed = FALSE
    /\ audit = None
    /\ \E prev_hash \in PrevChoices(blocks) : block = Some(Block_new(prev_hash))

Building == Unwrap(block)

\* b.add_transaction(t)
AddTransaction ==
    /\ res = None
    /\ get_transaction_count(Building) < MaxTxs
    /\ \E t \in Txs : block' = Some(add_transaction(Building, t))
    /\ UNCHANGED <<blocks, accounts, res, bc_attack, tampered, rehashed, audit>>

\* b.set_nonce(n)
SetNonce ==
    /\ res = None
    /\ \E n \in 0..MaxNonce : block' = Some(set_nonce(Building, n))
    /\ UNCHANGED <<blocks, accounts, res, bc_attack, tampered, rehashed, audit>>

\* b.transactions[j].record = another record its sender builds, in place, on a
\* block whose stored hash is right
AlterPayload ==
    /\ res = None
    /\ verify_own_hash(Building)
    /\ \E j \in 1..Len(Building.transactions), t \in Txs :
          /\ t.from = Building.transactions[j].from
          /\ t.record # Building.transactions[j].record
          /\ block' = Some([Building EXCEPT !.transactions[j].record = t.record])
    /\ UNCHANGED <<blocks, accounts, res, bc_attack, tampered, rehashed, audit>>

\* b.prev_hash = another value, in place
WritePrevHash ==
    /\ res = None
    /\ verify_own_hash(Building)
    /\ \E prev_hash \in PrevChoices(blocks) :
          /\ prev_hash # Building.prev_hash
          /\ block' = Some([Building EXCEPT !.prev_hash = prev_hash])
    /\ UNCHANGED <<blocks, accounts, res, bc_attack, tampered, rehashed, audit>>

\* b.transactions.swap(i, j) of two transactions that differ
SwapTransactions ==
    /\ res = None
    /\ verify_own_hash(Building)
    /\ \E i \in 1..Len(Building.transactions), j \in 1..Len(Building.transactions) :
          /\ i < j
          /\ Building.transactions[i] # Building.transactions[j]
          /\ block' = Some([Building EXCEPT !.transactions[i] = Building.transactions[j],
                                            !.transactions[j] = Building.transactions[i]])
    /\ UNCHANGED <<blocks, accounts, res, bc_attack, tampered, rehashed, audit>>

\* bc.append_block(b): the block is moved into the call
SubmitBlock ==
    /\ res = None
    /\ Submit(Building)
    /\ UNCHANGED <<bc_attack, tampered, rehashed, audit, block>>

NextBlock ==
    \/ AddTransaction
    \/ SetNonce
    \/ AlterPayload
    \/ WritePrevHash
    \/ SwapTransactions
    \/ SubmitBlock

SpecBlock == InitBlock /\ [][NextBlock]_vars

-----------------------------------------------------------------------------
(* The audit of a clone whose fields were written inside the crate *)

\* bc.append_block(block2): one more token from alice to bob
AppendBlock2 ==
    /\ Idle
    /\ len(blocks) > 0 /\ len(blocks) < MaxBlocks
    /\ Submit(scenario_block2(get_last_block_hash(blocks)))
    /\ UNCHANGED <<bc_attack, tampered, rehashed, audit, block>>

\* the number of stored hashes, prev_hashes and transactions of the blocks of
\* bks, from the n-th on, that differ from the ones of orig
RECURSIVE altered_fields(_, _, _)
altered_fields(bks, orig, n) ==
    IF n > Len(bks) THEN 0
    ELSE (IF bks[n].hash # orig[n].hash THEN 1 ELSE 0)
         + (IF bks[n].prev_hash # orig[n].prev_hash THEN 1 ELSE 0)
         + Cardinality({ j \in 1..Len(bks[n].transactions) :
                            bks[n].transactions[j] # orig[n].transactions[j] })
         + altered_fields(bks, orig, n + 1)

\* the attacker leaves the clone with `altered` in place of its blocks
Tamper(altered) ==
    /\ IsSome(bc_attack) /\ audit = None
    /\ altered # Unwrap(bc_attack)
    /\ altered_fields(altered, blocks, 1) <= MaxAltered
    /\ bc_attack' = Some(altered)
    /\ UNCHANGED <<blocks, accounts, res, tampered, rehashed, audit, block>>

\* bc_attack.blocks[k].hash = None, or another hash
TamperHash ==
    \E k \in 1..Len(blocks), hash \in PrevChoices(blocks) :
        Tamper([Unwrap(bc_attack) EXCEPT ![k].hash = hash])

\* bc_attack.blocks[k].prev_hash = None, or another hash
TamperPrevHash ==
    \E k \in 1..Len(blocks), prev_hash \in PrevChoices(blocks) :
        Tamper([Unwrap(bc_attack) EXCEPT ![k].prev_hash = prev_hash])

\* *amount = a on a transaction of the clone
TamperRecord ==
    \E k \in 1..Len(blocks) : \E j \in 1..Len(blocks[k].transactions), a \in TamperAmounts :
        /\ HasAmount(blocks[k].transactions[j])
        /\ Tamper(alter_amount(Unwrap(bc_attack), k, j, a))

\* bc_attack.blocks[k].transactions[j].signature = Some(..): a write only code
\* of the transaction module can do, the field being private to it
TamperSignature ==
    \E k \in 1..Len(blocks) : \E j \in 1..Len(blocks[k].transactions) :
        Tamper([Unwrap(bc_attack) EXCEPT ![k].transactions[j].signature = Some("signature")])

\* bc_attack.blocks[k].update_hash()
Rehash ==
    \E k \in 1..Len(blocks) : Tamper([Unwrap(bc_attack) EXCEPT ![k] = update_hash(@)])

\* bc_attack.check_validity()
AuditClone ==
    /\ IsSome(bc_attack) /\ audit = None
    /\ audit' = Some(check_validity(Unwrap(bc_attack)))
    /\ UNCHANGED <<blocks, accounts, res, bc_attack, tampered, rehashed, block>>

NextTamper ==
    \/ AppendGenesis
    \/ AppendBlock2
    \/ DropResult
    \/ CloneChain
    \/ TamperHash
    \/ TamperPrevHash
    \/ TamperRecord
    \/ TamperSignature
    \/ Rehash
    \/ AuditClone

SpecTamper == Init /\ [][NextTamper]_vars

\* the ledger under append_block calls alone
NextLedger ==
    \/ AppendBlock
    \/ AppendGenesis
    \/ DropResult

SpecLedger == Init /\ [][NextLedger]_vars

-----------------------------------------------------------------------------
(* Properties *)

Returned == IF IsSome(res) THEN Unwrap(res) ELSE Result("None", 0, "", 0)

\* a step that is an append_block call
IsCall == res = None /\ res' # None

\* C1: block-level atomicity.  When append_block returns the execution error
\* (some transaction of a structurally sound block failed), the account store
\* and the block sequence are what they were before the call.
C1_Atomicity ==
    [][ (IsCall /\ Unwrap(res').kind = "ErrExecute")
            => (accounts' = accounts /\ blocks' = blocks) ]_vars

\* a block was rejected at its second or a later transaction: the ones before
\* it had succeeded and changed the live store
C1_Witness == Returned.kind = "ErrExecute" /\ Returned.index > 1 /\ Len(blocks) > 0

\* C2: linkage invariant.  The first committed block has no prev_hash and every
\* later one carries the stored hash of its predecessor.
C2_Linkage ==
    /\ Len(blocks) > 0 => blocks[1].prev_hash = None
    /\ \A i \in 2..Len(blocks) : blocks[i].prev_hash = blocks[i - 1].hash

\* a second block was accepted on top of the first
C2_Witness == Len(blocks) >= 2 /\ Returned.kind = "Ok"

\* every transaction of every block, in block order then transaction order, run
\* from `store`; the initial-block flag is true for the first block only
RECURSIVE replay_block(_, _, _, _)
replay_block(txs, i, store, is_initial) ==
    IF i > Len(txs) THEN store
    ELSE LET r == execute(txs[i], store, is_initial, FALSE) IN
         replay_block(txs, i + 1, IF r.ok THEN r.store ELSE store, is_initial)

RECURSIVE replay(_, _, _)
replay(bks, n, store) ==
    IF n > Len(bks) THEN store
    ELSE replay(bks, n + 1, replay_block(bks[n].transactions, 1, store, n = 1))

\* C3: world-state consistency.  After every returned append_block call the
\* account store is the replay of the committed blocks from an empty store.
C3_WorldState == ~Aborted => accounts = replay(blocks, 1, EmptyStore)

\* a block is committed, both accounts exist, tokens are minted, and the last call
\* was rejected half-way through its transactions
C3_Witness ==
    /\ Len(blocks) >= 1
    /\ DOMAIN accounts = Ids
    /\ \E id \in Ids : accounts[id].tokens > 0
    /\ DOMAIN accounts = Ids
    /\ Returned.kind = "ErrExecute" /\ Returned.index > 1

StructuralErrors == {"ErrHash", "ErrLinkage", "ErrEmpty"}

\* C4: structural rejection leaves the ledger untouched.  A call that returns
\* the hash-mismatch, the linkage or the empty-block error has executed no
\* transaction and has changed neither the account store nor the block sequence.
C4_StructuralRejection ==
    [][ (IsCall /\ Unwrap(res').kind \in StructuralErrors)
            => /\ Unwrap(res').executed = 0
               /\ accounts' = accounts
               /\ blocks' = blocks ]_vars

\* a block was rejected on a structural check by a ledger that holds accounts
C4_Witness ==
    /\ Returned.kind \in StructuralErrors
    /\ Len(blocks) > 0 /\ DOMAIN accounts # {}

IsCreateTokens(t) == t.record.type = "CreateTokens"

HasCreateTokens(b) == \E j \in 1..Len(b.transactions) : IsCreateTokens(b.transactions[j])

\* every CreateTokens transaction a caller can build over the accounts and amounts
AllCreateTokens ==
    { Transaction_new(f, CreateTokens(r, a), 0) : f \in Ids, r \in Ids, a \in 0..TokenMax }

\* C5: genesis-only minting.  No block after the first that holds a CreateTokens
\* transaction is ever committed, and on a ledger at rest no CreateTokens
\* transaction executes outside the initial block, whoever sends it, whoever
\* receives and whatever the amount.
C5_GenesisOnlyMinting ==
    /\ \A i \in 2..Len(blocks) : ~HasCreateTokens(blocks[i])
    /\ Idle => \A tx \in AllCreateTokens :
                  LET r == execute(tx, accounts, FALSE, TRUE) IN
                  ~r.ok /\ ~r.panic /\ r.store = accounts

\* a block was rejected on a non-empty chain because a transaction of it, sent
\* by an existing account, tried to mint
C5_Witness ==
    /\ Len(blocks) > 0
    /\ Returned.kind = "ErrExecute"
    /\ Returned.cause = "Token creation is only available on initial creation (Code: 2394233)"

RECURSIVE sum_tokens(_, _)
sum_tokens(store, ids) ==
    IF ids = {} THEN 0
    ELSE LET id == CHOOSE x \in ids : TRUE IN
         store[id].tokens + sum_tokens(store, ids \ {id})

total_supply(store) == sum_tokens(store, DOMAIN store)

\* C6: the token supply is fixed after genesis.  Every append_block call on a
\* non-empty chain leaves the sum of all balances as it was.
C6_SupplyFixed ==
    [][ (IsCall /\ Len(blocks) > 0) => total_supply(accounts') = total_supply(accounts) ]_vars

\* every TransferTokens transaction a caller can build over the accounts and amounts
AllTransfers ==
    { Transaction_new(f, TransferTokens(t, a), 0) : f \in Ids, t \in Ids, a \in 0..TokenMax }

Overspends(tx, store) ==
    tx.from \in DOMAIN store /\ tx.record.amount > store[tx.from].tokens

OverflowsReceiver(tx, store) ==
    tx.record.to \in DOMAIN store /\ store[tx.record.to].tokens + tx.record.amount > TokenMax

\* C7: overspend rejection.  On every store the ledger reaches, a transfer of
\* more than the sender holds, or of an amount that takes the receiver past the
\* largest balance, fails and leaves the store as it was; and every balance is
\* within the unsigned range.
C7_OverspendRejected ==
    /\ \A id \in DOMAIN accounts : accounts[id].tokens \in 0..TokenMax
    /\ Idle => \A tx \in AllTransfers, is_initial \in BOOLEAN :
                  (Overspends(tx, accounts) \/ OverflowsReceiver(tx, accounts))
                      => LET r == execute(tx, accounts, is_initial, TRUE) IN
                         ~r.ok /\ ~r.panic /\ r.store = accounts

\* a block was rejected for an overspending (or overflowing) transfer
C7_Witness ==
    /\ Returned.kind = "ErrExecute"
    /\ Returned.cause = "Overspent or Arithmetic error (Code: 48239084203)"

\* some CreateTokens of the initial block txs finds its receiver holding a balance
\* that the amount takes past the largest one
RECURSIVE overflowing_mint(_, _, _)
overflowing_mint(txs, i, store) ==
    IF i > Len(txs) THEN FALSE
    ELSE LET r == execute(txs[i], store, TRUE, FALSE) IN
         \/ /\ IsCreateTokens(txs[i])
            /\ txs[i].record.receiver \in DOMAIN store
            /\ store[txs[i].record.receiver].tokens + txs[i].record.amount > TokenMax
         \/ r.ok /\ overflowing_mint(txs, i + 1, r.store)

\* C8: mint overflow rejection.  append_block never aborts, and a genesis block
\* with a CreateTokens that overflows the receiver's balance is never committed.
C8_MintOverflowRejected ==
    /\ Returned.kind # "Panic"
    /\ Len(blocks) > 0 => ~overflowing_mint(blocks[1].transactions, 1, EmptyStore)

Attacked == Unwrap(bc_attack)

\* C9: tamper detection by self-hash.  With the amount of one committed
\* transaction of block k changed in place and no hash recomputed,
\* check_validity returns the stored-hash mismatch for block k (1-based).
C9_TamperDetectedByHash ==
    (IsSome(tampered) /\ ~rehashed)
        => check_validity(Attacked) = Verdict("ErrStoredHash", Unwrap(tampered).k, Unwrap(tampered).k, 0)

\* the audit of a clone altered in its second block returned that error
C9_Witness ==
    /\ IsSome(tampered) /\ ~rehashed /\ Unwrap(tampered).k = 2
    /\ audit = Some(Verdict("ErrStoredHash", 2, 2, 0))

\* C10 as stated: in a two-block chain, with the amount of a transaction of
\* either block changed and that block's hash recomputed, check_validity fails
\* on broken linkage at the block after the altered one.
C10_TamperDetectedByLinkage ==
    (IsSome(tampered) /\ rehashed /\ Len(Attacked) = 2)
        => LET v == check_validity(Attacked) IN
           v.kind = "ErrNotConnected" /\ v.at = Unwrap(tampered).k + 1

\* C10 amended: with the amount of a transaction of a block that is not the last
\* one changed and that block's hash recomputed, check_validity fails on broken
\* linkage when it reaches the block after the altered one.
C10_TamperDetectedByLinkage_Amended ==
    (IsSome(tampered) /\ rehashed /\ Unwrap(tampered).k < Len(Attacked))
        => LET v == check_validity(Attacked) IN
           v.kind = "ErrNotConnected" /\ v.at = Unwrap(tampered).k + 1

\* the audit of a two-block clone altered and rehashed in its first block
\* returned the linkage error found at the second block
C10_Witness ==
    /\ IsSome(tampered) /\ rehashed /\ Unwrap(tampered).k = 1
    /\ Len(Attacked) = 2
    /\ IsSome(audit) /\ Unwrap(audit).kind = "ErrNotConnected" /\ Unwrap(audit).at = 2

\* C11: accepted chains audit clean.  Whatever blocks were submitted to a ledger
\* started empty, every check_validity call on it returns success, and the
\* stored hash of every committed block is the hash recomputed from its
\* transactions, prev_hash and nonce.
C11_AuditClean ==
    /\ (IsSome(audit) /\ bc_attack = None) => Unwrap(audit) = Verdict("Ok", 0, 0, 0)
    /\ bc_attack = None =>
          \A i \in 1..Len(blocks) :
              blocks[i].hash = Some(byte_vector_to_string(Block_calculate_hash(blocks[i])))

\* the audit of a chain of two committed blocks returned success
C11_Witness ==
    /\ bc_attack = None /\ Len(blocks) >= 2
    /\ audit = Some(Verdict("Ok", 0, 0, 0))

\* every TransferTokens transaction between two different accounts
TransfersToOthers ==
    { tx \in { Transaction_new(f, TransferTokens(t, a), 0) :
                 f \in {"alice", "bob", "carol"}, t \in {"alice", "bob", "carol"},
                 a \in 0..TokenMax } :
        tx.record.to # tx.from }

ScenarioGenesis == scenario_genesis(<<"alice", "bob">>)

ScenarioBlock2 == scenario_block2(ScenarioGenesis.hash)

ScenarioBalances(alice, bob) ==
    [id \in {"alice", "bob"} |->
        [Account_new("User") EXCEPT !.tokens = IF id = "alice" THEN alice ELSE bob]]

\* C12: transfer effect.  On every store the ledger reaches, a TransferTokens
\* between two different existing accounts that succeeds takes exactly the amount
\* from the sender, gives exactly the amount to the receiver and leaves every
\* other account as it was; and in the scenario of the program the genesis
\* block (alice and bob created, Minted tokens each) and the second block (one
\* token from alice to bob) are both accepted, with alice at Minted - 1 and bob
\* at Minted + 1 in the end.
C12_TransferEffect ==
    /\ Idle => \A tx \in TransfersToOthers, is_initial \in BOOLEAN :
                  LET r == execute(tx, accounts, is_initial, TRUE) IN
                  r.ok => /\ tx.from \in DOMAIN accounts /\ tx.record.to \in DOMAIN accounts
                          /\ r.store = [accounts EXCEPT
                                           ![tx.from].tokens = @ - tx.record.amount,
                                           ![tx.record.to].tokens = @ + tx.record.amount]
    /\ (Idle /\ blocks = << >>) =>
          LET r == append_block(blocks, accounts, ScenarioGenesis, TRUE) IN
          /\ r.res.kind = "Ok"
          /\ r.accounts = ScenarioBalances(Minted, Minted)
    /\ (Idle /\ blocks = << ScenarioGenesis >>) =>
          LET r == append_block(blocks, accounts, ScenarioBlock2, TRUE) IN
          /\ r.res.kind = "Ok"
          /\ r.accounts = ScenarioBalances(Minted - 1, Minted + 1)
    /\ blocks = << ScenarioGenesis, ScenarioBlock2 >>
          => accounts = ScenarioBalances(Minted - 1, Minted + 1)

\* the two blocks of the scenario are committed, the second call returned
\* success, and the balances are the expected ones
C12_Witness ==
    /\ blocks = << ScenarioGenesis, ScenarioBlock2 >>
    /\ Returned.kind = "Ok"
    /\ accounts["alice"].tokens = Minted - 1 /\ accounts["bob"].tokens = Minted + 1

AlreadyExists == "User already exists! (Code: 934823094)"

\* some CreateUserAccount of txs, from the i-th on, runs on a store that holds
\* its id already (the transactions before it having succeeded)
RECURSIVE creates_existing(_, _, _, _)
creates_existing(txs, i, store, is_initial) ==
    IF i > Len(txs) THEN FALSE
    ELSE LET r == execute(txs[i], store, is_initial, FALSE) IN
         \/ txs[i].record.type = "CreateUserAccount" /\ txs[i].record.id \in DOMAIN store
         \/ r.ok /\ creates_existing(txs, i + 1, r.store, is_initial)

C13_StoreLevel ==
    \A id \in DOMAIN accounts, from \in {"alice", "bob", "carol"}, is_initial \in BOOLEAN :
        LET r == execute(Transaction_new(from, CreateUserAccount(id), 0),
                         accounts, is_initial, TRUE)
        IN  /\ ~r.ok /\ ~r.panic
            /\ r.store = accounts
            /\ (is_initial \/ from \in DOMAIN accounts) => r.err = AlreadyExists

C13_ChainLevel ==
    \A n \in 1..Len(blocks) :
        ~creates_existing(blocks[n].transactions, 1,
                          replay(SubSeq(blocks, 1, n - 1), 1, EmptyStore), n = 1)

\* C13: duplicate account rejection.  On every store the ledger reaches a
\* CreateUserAccount of an id the store holds fails and leaves the store as it
\* is, in an initial block or not; no committed block holds a CreateUserAccount
\* that ran on a store holding its id; and a call that returns this failure
\* leaves the block sequence and every balance as before the call.
C13_DuplicateAccountRejected ==
    /\ [](Idle => (C13_StoreLevel /\ C13_ChainLevel))
    /\ [][ (IsCall /\ Unwrap(res').cause = AlreadyExists)
              => /\ Unwrap(res').kind = "ErrExecute"
                 /\ blocks' = blocks
                 /\ accounts' = accounts ]_vars

\* a block on a non-empty chain was rejected for creating, after a transaction
\* of it had succeeded, an account that holds tokens
C13_Witness ==
    /\ Len(blocks) > 0
    /\ Returned.kind = "ErrExecute" /\ Returned.cause = AlreadyExists
    /\ Returned.index > 1
    /\ \E id \in DOMAIN accounts : accounts[id].tokens > 0

\* C14: hash self-consistency of a block.  A block as Block::new returns it
\* does not verify; after every add_transaction and every set_nonce call the
\* block verifies; and a block that verifies no longer does once the record of
\* one of its transactions, its prev_hash or the order of its transactions has
\* been changed with the stored hash left as it was.
C14_HashSelfConsistency ==
    /\ [](Building = Block_new(Building.prev_hash) => ~verify_own_hash(Building))
    /\ [][ (AddTransaction \/ SetNonce) => verify_own_hash(Unwrap(block')) ]_vars
    /\ [][ (/\ verify_own_hash(Building)
            /\ Unwrap(block').hash = Building.hash
            /\ block' # block) => ~verify_own_hash(Unwrap(block')) ]_vars

\* a block of two transactions or more carries a stored hash that is not the
\* hash of its present content
C14_Witness ==
    /\ IsSome(block)
    /\ get_transaction_count(Building) >= 2
    /\ IsSome(Building.hash) /\ ~verify_own_hash(Building)

\* C15: no abrupt termination in the audit.  check_validity returns success or
\* an error, never the panic of an unwrap on an absent hash, on the committed
\* chain and on every clone of it whose stored hashes, prev_hashes, amounts or
\* signatures were cleared or replaced.
C15_AuditNeverPanics ==
    /\ check_validity(blocks).kind # "Panic"
    /\ IsSome(bc_attack) => check_validity(Attacked).kind # "Panic"
    /\ IsSome(audit) => Unwrap(audit).kind # "Panic"

\* the audit of a clone whose block before the last one has its stored hash
\* cleared returned the stored-hash error of that block
C15_Witness ==
    /\ IsSome(bc_attack) /\ IsSome(audit)
    /\ \E k \in 2..Len(Attacked) :
          /\ Attacked[k - 1].hash = None
          /\ Unwrap(audit).kind = "ErrStoredHash" /\ Unwrap(audit).at = k - 1

NoSender == "Account does not exist (Code: 93482390)"

\* every transaction an account of `senders` can build, of every variant
TransactionsOf(senders) ==
    { Transaction_new(f, record, 0) :
        f \in senders,
        record \in { CreateUserAccount(id) : id \in {"alice", "bob", "carol"} }
                  \cup { CreateTokens(id, a) : id \in {"alice", "bob", "carol"}, a \in 0..TokenMax }
                  \cup { TransferTokens(id, a) : id \in {"alice", "bob", "carol"}, a \in 0..TokenMax }
                  \cup { ChangeStoreValue("k", "v") } }

\* some transaction of txs, from the i-th on, runs on a store that does not hold
\* its sender (the transactions before it having succeeded)
RECURSIVE runs_without_sender(_, _, _, _)
runs_without_sender(txs, i, store, is_initial) ==
    IF i > Len(txs) THEN FALSE
    ELSE LET r == execute(txs[i], store, is_initial, FALSE) IN
         \/ txs[i].from \notin DOMAIN store
         \/ r.ok /\ runs_without_sender(txs, i + 1, r.store, is_initial)

\* outside the initial block a transaction of an unknown sender fails
C16_LaterBlocks ==
    /\ \A tx \in TransactionsOf({"alice", "bob", "carol"} \ DOMAIN accounts) :
          LET r == execute(tx, accounts, FALSE, TRUE) IN
          ~r.ok /\ ~r.panic /\ r.err = NoSender /\ r.store = accounts
    /\ \A n \in 2..Len(blocks) :
          ~runs_without_sender(blocks[n].transactions, 1,
                               replay(SubSeq(blocks, 1, n - 1), 1, EmptyStore), FALSE)

\* in the initial block an unknown sender creates any account the store does not
\* hold and mints to any account it holds, short of an overflow
C16_InitialBlock ==
    \A tx \in TransactionsOf({"alice", "bob", "carol"} \ DOMAIN accounts) :
        LET r == execute(tx, accounts, TRUE, TRUE) IN
        /\ (tx.record.type = "CreateUserAccount" /\ tx.record.id \notin DOMAIN accounts)
              => r.ok /\ DOMAIN r.store = DOMAIN accounts \cup {tx.record.id}
        /\ (/\ tx.record.type = "CreateTokens"
            /\ tx.record.receiver \in DOMAIN accounts
            /\ accounts[tx.record.receiver].tokens + tx.record.amount <= TokenMax)
              => r.ok /\ r.store = [accounts EXCEPT
                                      ![tx.record.receiver].tokens = @ + tx.record.amount]

\* C16: sender-existence rule.  On every store the ledger reaches, a transaction
\* of any variant whose sender the store does not hold fails outside the initial
\* block with the unknown-account error and changes nothing, and no block after
\* the first is committed with a transaction that ran without its sender; a call
\* returning that error is a call on a non-empty chain and leaves the ledger as
\* it was; in the initial block CreateUserAccount and CreateTokens of such a
\* sender succeed.
C16_SenderExistence ==
    /\ [](Idle => (C16_LaterBlocks /\ C16_InitialBlock))
    /\ [][ (IsCall /\ Unwrap(res').cause = NoSender)
              => /\ Unwrap(res').kind = "ErrExecute"
                 /\ Len(blocks) > 0
                 /\ blocks' = blocks
                 /\ accounts' = accounts ]_vars

\* the first block was committed with a transaction of bob, who has no account,
\* and a later block was rejected for its unknown sender
C16_Witness ==
    /\ Len(blocks) > 0
    /\ "bob" \notin DOMAIN accounts
    /\ \E j \in 1..Len(blocks[1].transactions) : blocks[1].transactions[j].from = "bob"
    /\ Returned.kind = "ErrExecute" /\ Returned.cause = NoSender

\* the first transaction of txs, from the i-th on, whose execute does not return
\* Ok when they are run in order from `store`: its position (0 if there is
\* none), what execute returned, and whether it was a panic rather than an error
RECURSIVE first_failing(_, _, _, _, _)
first_failing(txs, i, store, is_initial, overflow_checks) ==
    IF i > Len(txs) THEN [index |-> 0, err |-> "", panic |-> FALSE]
    ELSE LET r == execute(txs[i], store, is_initial, overflow_checks) IN
         IF r.ok THEN first_failing(txs, i + 1, r.store, is_initial, overflow_checks)
         ELSE [index |-> i, err |-> r.err, panic |-> r.panic]

\* r is what append_block returns for a block whose first failing transaction is f
ReportsFirstFailing(r, f) ==
    /\ (r.kind \notin StructuralErrors /\ f.index # 0 /\ ~f.panic)
          => r = Result("ErrExecute", f.index, f.err, f.index)
    /\ r.kind = "ErrExecute"
          => /\ f.index # 0 /\ ~f.panic
             /\ r.executed = r.index /\ r.index = f.index /\ r.cause = f.err
    /\ r.kind = "Ok" => f.index = 0
    /\ r.kind = "Panic" => f.panic

\* C17: failing-transaction report.  When a block is submitted that passes the
\* structural checks and one of its transactions returns an error as they are
\* run in order, append_block returns the execution error carrying the 1-based
\* position of the first such transaction and the error it returned, having
\* called execute on no transaction after it; and it returns the execution
\* error in this case only.  (An overflowing mint returns no error: it succeeds
\* or panics, as the build has it.)
C17_FailingTransactionReport ==
    [][ (IsCall /\ IsSome(block)) =>
          \E overflow_checks \in BOOLEAN :
              ReportsFirstFailing(Unwrap(res'),
                                  first_failing(Building.transactions, 1, accounts,
                                                len(blocks) = 0, overflow_checks)) ]_vars

\* a block of three transactions was rejected at its second, the last one run
C17_Witness ==
    /\ IsSome(block) /\ get_transaction_count(Building) = 3
    /\ Returned.kind = "ErrExecute"
    /\ Returned.index = 2 /\ Returned.executed = 2

Unimplemented == "Unknown Transaction type (not implemented) (Code: 487289724389)"

IsChangeStoreValue(t) == t.record.type = "ChangeStoreValue"

\* on this store a ChangeStoreValue of whatever sender fails and changes
\* nothing, in an initial block or not: with the unimplemented error, or with
\* the unknown-account error when the sender check runs and fails
C18_StoreLevel ==
    \A from \in {"alice", "bob", "carol"}, is_initial \in BOOLEAN :
        LET r == execute(Transaction_new(from, ChangeStoreValue("k", "v"), 0),
                         accounts, is_initial, TRUE)
        IN  /\ ~r.ok /\ ~r.panic
            /\ r.store = accounts
            /\ r.err = IF is_initial \/ from \in DOMAIN accounts THEN Unimplemented
                                                                  ELSE NoSender

\* C18: unimplemented variant.  On every store the ledger reaches a
\* ChangeStoreValue transaction fails, with the unimplemented error once past
\* the sender check; no committed block holds a ChangeStoreValue transaction,
\* though blocks holding one are submitted to every ledger; and a call that
\* returns the unimplemented error leaves the ledger as it was.
C18_UnimplementedVariant ==
    /\ [](Idle => C18_StoreLevel)
    /\ [](\A n \in 1..Len(blocks) : \A j \in 1..Len(blocks[n].transactions) :
              ~IsChangeStoreValue(blocks[n].transactions[j]))
    /\ [][ (IsCall /\ Unwrap(res').cause = Unimplemented)
              => /\ Unwrap(res').kind = "ErrExecute"
                 /\ blocks' = blocks
                 /\ accounts' = accounts ]_vars

\* a block on a non-empty chain was rejected at a ChangeStoreValue that came
\* after a transaction that had succeeded
C18_Witness ==
    /\ Len(blocks) > 0
    /\ Returned.kind = "ErrExecute" /\ Returned.cause = Unimplemented
    /\ Returned.index > 1

StoredHashRight(b) == b.hash = Some(byte_vector_to_string(Block_calculate_hash(b)))

\* C19: order of the checks of append_block.  A block whose stored hash is
\* unset or wrong gets the hash-mismatch error, whatever its prev_hash and its
\* transactions; one with the right hash that does not point at the last block
\* gets the linkage error, with or without transactions; one with the right hash
\* and linkage and no transaction gets the empty-block error; only a block that
\* passes the three is executed.
C19_OrderOfChecks ==
    [][ (IsCall /\ IsSome(block)) =>
          LET b == Building
              kind == Unwrap(res').kind
          IN  IF ~StoredHashRight(b) THEN kind = "ErrHash"
              ELSE IF b.prev_hash # (IF blocks = << >> THEN None ELSE blocks[Len(blocks)].hash)
                   THEN kind = "ErrLinkage"
              ELSE IF b.transactions = << >> THEN kind = "ErrEmpty"
              ELSE kind \in {"Ok", "ErrExecute", "Panic"} ]_vars

\* a block whose stored hash is stale and whose prev_hash is not the hash of the
\* last block was submitted to a non-empty chain and got the hash-mismatch error
C19_Witness ==
    /\ IsSome(block) /\ Returned.kind = "ErrHash"
    /\ Len(blocks) > 0
    /\ IsSome(Building.hash) /\ ~StoredHashRight(Building)
    /\ Building.prev_hash # blocks[Len(blocks)].hash

\* what is wrong with the n-th block of the chain bks
BadHash(bks, n) == ~StoredHashRight(bks[n])

BadLink(bks, n) ==
    IF n = 1 THEN bks[n].prev_hash # None
    ELSE bks[n].prev_hash = None \/ bks[n].prev_hash # bks[n - 1].hash

BadSignatures(bks, n) ==
    { j \in 1..Len(bks[n].transactions) :
        is_signed(bks[n].transactions[j]) /\ ~check_signature(bks[n].transactions[j]) }

Offending(bks) ==
    { n \in 1..Len(bks) : BadHash(bks, n) \/ BadLink(bks, n) \/ BadSignatures(bks, n) # {} }

Least(S) == CHOOSE n \in S : \A m \in S : n <= m

\* C20: earliest inconsistency first.  On every clone of the chain, altered or
\* not, check_validity returns success if no block offends, and otherwise the
\* error found at the lowest-numbered offending block: of its stored hash if
\* that is wrong, else of its prev_hash if that is set in the first block,
\* unset in a later one or not the stored hash of the block before, else of its
\* first transaction that carries a signature; and that is what the audit call
\* returns.
C20_EarliestInconsistencyFirst ==
    IsSome(bc_attack) =>
        LET v == check_validity(Attacked)
            n == Least(Offending(Attacked))
        IN  /\ IsSome(audit) => Unwrap(audit) = v
            /\ IF Offending(Attacked) = {} THEN v.kind = "Ok"
               ELSE /\ v.at = n
                    /\ v.kind = IF BadHash(Attacked, n) THEN "ErrStoredHash"
                                ELSE IF ~BadLink(Attacked, n) THEN "ErrSignature"
                                ELSE IF n = 1 THEN "ErrGenesisPrevHash"
                                ELSE IF Attacked[n].prev_hash = None THEN "ErrNoPrevHash"
                                ELSE "ErrNotConnected"
                    /\ v.kind = "ErrSignature" => v.tx = Least(BadSignatures(Attacked, n))

\* the audit of a clone whose first block has a wrong stored hash and a signed
\* transaction, and whose second block is not linked to it any more, returned
\* the stored-hash error of the first block
C20_Witness ==
    /\ IsSome(bc_attack) /\ IsSome(audit) /\ Len(Attacked) >= 2
    /\ BadHash(Attacked, 1) /\ BadSignatures(Attacked, 1) # {}
    /\ BadLink(Attacked, 2)
    /\ Unwrap(audit).kind = "ErrStoredHash" /\ Unwrap(audit).at = 1

\* the errors of check_validity whose message prints a block number
NumberedErrors == {"ErrStoredHash", "ErrNoPrevHash", "ErrNotConnected", "ErrSignature"}

\* C21: audit errors name the offending block.  When check_validity fails at
\* block k because its stored hash is wrong, its prev_hash is unset or is not
\* the stored hash of block k - 1, or one of its transactions is signed, the
\* block number the message prints is k (1-based).
C21_AuditErrorsNameBlock ==
    (IsSome(audit) /\ Unwrap(audit).kind \in NumberedErrors)
        => Unwrap(audit).reported = Unwrap(audit).at

\* the same for the errors other than the broken linkage
C21_OtherErrorsNameBlock ==
    (IsSome(audit) /\ Unwrap(audit).kind \in NumberedErrors \ {"ErrNotConnected"})
        => Unwrap(audit).reported = Unwrap(audit).at

\* a chain whose stored hashes and linkage are all right
Intact(bks) == \A n \in 1..Len(bks) : ~BadHash(bks, n) /\ ~BadLink(bks, n)

\* the positions of the signed transactions of the n-th block
SignedIn(bks, n) == { j \in 1..Len(bks[n].transactions) : is_signed(bks[n].transactions[j]) }

\* the blocks that hold a signed transaction
WithSigned(bks) == { n \in 1..Len(bks) : SignedIn(bks, n) # {} }

\* C22: signature rule in the audit.  In a chain whose hashes and linkage are
\* intact, check_validity succeeds if every transaction is unsigned, and
\* otherwise fails with the invalid-signature error of the first signed
\* transaction of the first block that holds one, whatever the signature is.
C22_SignatureRule ==
    (IsSome(bc_attack) /\ IsSome(audit) /\ Intact(Attacked)) =>
        LET v == Unwrap(audit)
            signed == WithSigned(Attacked)
        IN  IF signed = {} THEN v.kind = "Ok"
            ELSE /\ v.kind = "ErrSignature"
                 /\ v.at = Least(signed)
                 /\ v.reported = Least(signed)
                 /\ v.tx = Least(SignedIn(Attacked, Least(signed)))

\* the audit of an intact clone in which two transactions of one block are
\* signed, the first of them not the first of the block, returned the
\* invalid-signature error of the earlier one
C22_Witness ==
    /\ IsSome(bc_attack) /\ IsSome(audit) /\ Intact(Attacked)
    /\ \E n \in 1..Len(Attacked) : \E j1, j2 \in SignedIn(Attacked, n) :
          /\ 1 < j1 /\ j1 < j2
          /\ Unwrap(audit) = Verdict("ErrSignature", n, n, j1)

\* the audit of an intact two-block clone without any signature succeeded
C22_WitnessUnsigned ==
    /\ IsSome(bc_attack) /\ IsSome(audit) /\ Intact(Attacked)
    /\ Len(Attacked) = 2 /\ WithSigned(Attacked) = {}
    /\ Unwrap(audit).kind = "Ok"

\* an empty block built on the head of the chain, its hash made right by
\* set_nonce
EmptyOnHead(bks, nonce) == set_nonce(Block_new(get_last_block_hash(bks)), nonce)

\* C23: committed blocks are non-empty.  After any sequence of append_block
\* calls every block of the chain holds at least one transaction; and on every
\* ledger so reached, an empty block whose stored hash verifies and whose
\* prev_hash is the head is refused as empty and the chain is left as it was.
C23_CommittedBlocksNonEmpty ==
    /\ \A n \in 1..len(blocks) : get_transaction_count(blocks[n]) >= 1
    /\ \A nonce \in 0..MaxNonce, overflow_checks \in BOOLEAN :
          LET b == EmptyOnHead(blocks, nonce)
              r == append_block(blocks, accounts, b, overflow_checks)
          IN  /\ get_transaction_count(b) = 0
              /\ StoredHashRight(b)
              /\ r.res.kind = "ErrEmpty"
              /\ r.blocks = blocks

\* an empty block was submitted on the head of a chain of one block and
\* came back refused as empty, the chain still being that one block
C23_Witness ==
    /\ Returned.kind = "ErrEmpty"
    /\ len(blocks) = 1
    /\ get_transaction_count(blocks[1]) >= 1

\* C24: append-only chain.  get_last_block_hash() is None exactly when the
\* chain is empty; a successful append_block call leaves the chain as the old
\* sequence with the submitted block at the end, one block longer, and
\* get_last_block_hash() is then that block's hash, which is set; a failed call
\* leaves the sequence as it was; and nothing but append_block changes it.
C24_AppendOnly ==
    /\ [](get_last_block_hash(blocks) = None <=> len(blocks) = 0)
    /\ [][ IF IsCall /\ IsSome(block)
           THEN IF Unwrap(res').kind = "Ok"
                THEN /\ blocks' = Append(blocks, Building)
                     /\ len(blocks') = len(blocks) + 1
                     /\ \A n \in 1..len(blocks) : blocks'[n] = blocks[n]
                     /\ get_last_block_hash(blocks') = Building.hash
                     /\ Building.hash # None
                ELSE blocks' = blocks
           ELSE blocks' = blocks ]_vars

\* a block built on the genesis block was accepted and is the second and last
\* block of the chain, its hash the head
C24_Witness ==
    /\ Returned.kind = "Ok" /\ IsSome(block)
    /\ len(blocks) = 2
    /\ blocks[2] = Building
    /\ get_last_block_hash(blocks) = Building.hash

\* a block was refused and the chain is still the genesis block alone
C24_WitnessRefused ==
    /\ Returned.kind \in StructuralErrors \cup {"ErrExecute"} /\ IsSome(block)
    /\ len(blocks) = 1
    /\ get_last_block_hash(blocks) # None

\* the same over sequences of calls, where the submitted block is not kept:
\* a successful call adds one block after the old ones, a failed call and
\* every other step leave the chain as it was
C24_InSequence ==
    [][ IF IsCall /\ Unwrap(res').kind = "Ok"
        THEN /\ len(blocks') = len(blocks) + 1
             /\ SubSeq(blocks', 1, len(blocks)) = blocks
             /\ get_last_block_hash(blocks') = blocks'[len(blocks')].hash
             /\ get_last_block_hash(blocks') # None
        ELSE blocks' = blocks ]_vars

=============================================================================
